---- MODULE Spec2Model ----
(***************************************************************************)
(* Model of the Container of vscode-reveal (src/src/Container.ts): the     *)
(* object that connects the editor, the reveal.js server, the status bar,  *)
(* the slide explorer and the preview webview, and that coordinates the    *)
(* debounce-gated export promise.                                          *)
(*                                                                         *)
(* Every handler of the Container runs to completion on the event loop, so *)
(* each handler is one action.  A handler is written as an operator from   *)
(* the Container's fields (a record c) to the fields after the handler;    *)
(* the collaborator calls it makes are appended to c.calls in the order    *)
(* the code makes them.                                                    *)
(*                                                                         *)
(* Strings that the code builds (the uri, the webview markup) are          *)
(* sequences of one-character strings; a nullable field is None or         *)
(* Some(x).                                                                *)
(***************************************************************************)
EXTENDS Integers, Sequences, FiniteSets, TLC

\* ------------------------------------------------------------------------
\* Bounds of the model
\* ------------------------------------------------------------------------

\* milliseconds by which one Tick advances the clock (at most)
TickStep == 400

\* the clock stops advancing here
MaxNow == 1200

\* number of export sessions that may be created in one behaviour
MaxExports == 2

\* ------------------------------------------------------------------------
\* Program constants
\* ------------------------------------------------------------------------

\* the wait of the debounced callback, debounce(..., 800)
Wait == 800

\* ------------------------------------------------------------------------
\* Nullable values
\* ------------------------------------------------------------------------

None == <<>>

Some(x) == <<x>>

Min(S) == CHOOSE x \in S : \A y \in S : x <= y

\* ------------------------------------------------------------------------
\* Strings as sequences of characters; template-literal number formatting
\* ------------------------------------------------------------------------

DigitChars == <<"0", "1", "2", "3", "4", "5", "6", "7", "8", "9">>

RECURSIVE NumberToString(_)
\* `${n}` for a non-negative integer n
NumberToString(n) ==
    IF n < 10 THEN <<DigitChars[n + 1]>>
    ELSE NumberToString(n \div 10) \o <<DigitChars[(n % 10) + 1]>>

\* `${null}`
NullString == <<"n", "u", "l", "l">>

\* ------------------------------------------------------------------------
\* The editor host: editors, their documents, the settings
\* ------------------------------------------------------------------------

Editors == {"a.md", "b.md", "c.txt"}

languageId(e) == IF e = "c.txt" THEN "plaintext" ELSE "markdown"

MarkdownEditors == {e \in Editors : languageId(e) = "markdown"}

\* path.dirname of the editor's document, as path segments
dirname(e) == IF e = "a.md" THEN <<"p">> ELSE <<"q">>

\* A document is its lines and its front matter.  A line is text ("t"), a
\* horizontal slide separator ("h") or a vertical slide separator ("v").
\* The front matter is None or Some(overrides of configuration keys).
Documents ==
    { [lines |-> <<"t">>, front |-> None],
      [lines |-> <<"t", "h", "v">>, front |-> None] }

\* what the settings loader can return: exportHTMLPath is '' (<<>>) or a path
Settings ==
    { [exportHTMLPath |-> <<>>, theme |-> "black"],
      [exportHTMLPath |-> <<"out">>, theme |-> "black"] }

\* the webviews a consumer can attach
Views == {"w1", "w2"}

\* ------------------------------------------------------------------------
\* State
\* ------------------------------------------------------------------------

VARIABLES
    editorContext,        \* None or Some(document binding)
    baseConfiguration,    \* this._configuration
    webView,              \* None or Some(view)
    html,                 \* the markup last assigned to the bound webview's html
    server,               \* the reveal server: [isListening]
    statusBar,            \* what the status bar shows since its last update()
    slidesExplorer,       \* what the slide explorer shows since its last update()
    exportPromise,        \* None or Some(index into promises)
    exportPromiseResolve, \* None or Some(index of the promise it resolves)
    exportPromiseReject,  \* None or Some(index of the promise it rejects)
    endDebounce,          \* None or Some(index into debounced)
    promises,             \* every promise created by startExport
    debounced,            \* every debounced function created by startExport
    calls,                \* collaborator calls of the last handler, in order
    returned,             \* what the last handler returned
    now,                  \* Date.now()
    document,             \* document[e]: the content of editor e
    settings,             \* what loadConfiguration() returns
    createdAt,            \* None or Some(time the pending session was created)
    lastQueryAt,          \* None or Some(time of the last isInExport query of
                          \* the pending session)
    startPath             \* None or Some(the export path when the pending
                          \* session was created)

containerVars ==
    <<editorContext, baseConfiguration, webView, html, server, statusBar, slidesExplorer,
      exportPromise, exportPromiseResolve, exportPromiseReject, endDebounce, promises,
      debounced>>

vars ==
    <<editorContext, baseConfiguration, webView, html, server, statusBar, slidesExplorer,
      exportPromise, exportPromiseResolve, exportPromiseReject, endDebounce, promises,
      debounced, calls, returned, now, document, settings, createdAt, lastQueryAt,
      startPath>>

\* ------------------------------------------------------------------------
\* The document parser and the EditorContext (the Document Binding)
\* ------------------------------------------------------------------------

RECURSIVE CountLines(_, _)
\* number of lines of kind k in lines
CountLines(lines, k) ==
    IF lines = <<>> THEN 0
    ELSE (IF lines[1] = k THEN 1 ELSE 0) + CountLines(Tail(lines), k)

RECURSIVE LastIndexOf(_, _)
\* index of the last line of kind k in lines, 0 when there is none
LastIndexOf(lines, k) ==
    IF lines = <<>> THEN 0
    ELSE IF lines[Len(lines)] = k THEN Len(lines)
    ELSE LastIndexOf(SubSeq(lines, 1, Len(lines) - 1), k)

\* the (horizontal, vertical) slide that holds cursor line `line` of `lines`
SlidePosition(lines, line) ==
    LET upto == SubSeq(lines, 1, IF line < Len(lines) THEN line ELSE Len(lines))
        inSlide == SubSeq(upto, LastIndexOf(upto, "h") + 1, Len(upto))
    IN  [horizontal |-> CountLines(upto, "h"), vertical |-> CountLines(inSlide, "v")]

RECURSIVE ParseSlides(_)
\* the slides of a document: one entry per horizontal slide, holding the
\* number of its vertical children
ParseSlides(lines) ==
    LET cut == LastIndexOf(lines, "h")
    IN  IF cut = 0 THEN <<CountLines(lines, "v")>>
        ELSE ParseSlides(SubSeq(lines, 1, cut - 1))
                 \o <<CountLines(SubSeq(lines, cut + 1, Len(lines)), "v")>>

\* getDocumentOptions(configuration): the options handed to a new binding
getDocumentOptions(config) == config

\* new EditorContext(editor, options), reading the editor's document doc
NewEditorContext(e, options, doc) ==
    [editor |-> e,
     lines |-> doc.lines,
     front |-> doc.front,
     slides |-> ParseSlides(doc.lines),
     position |-> [horizontal |-> 0, vertical |-> 0]]

\* editorContext.refresh(): re-derive the slides from the document's content;
\* the position is not re-clamped
EditorContextRefresh(ctx, doc) ==
    [ctx EXCEPT !.lines = doc.lines, !.front = doc.front,
                !.slides = ParseSlides(doc.lines)]

\* editorContext.updatePosition(cursor): the position of the cursor in the
\* slide-boundary table of the binding
EditorContextUpdatePosition(ctx, line) ==
    [ctx EXCEPT !.position = SlidePosition(ctx.lines, line)]

\* editorContext.goToSlide(top, vertical): sets the position directly
EditorContextGoToSlide(ctx, topindex, verticalIndex) ==
    [ctx EXCEPT !.position = [horizontal |-> topindex, vertical |-> verticalIndex]]

hasfrontConfig(ctx) == ctx.front # None

documentOptions(ctx) == ctx.front[1]

\* { ...base, ...over }
Overlay(base, over) ==
    [k \in DOMAIN base \cup DOMAIN over |->
        IF k \in DOMAIN over THEN over[k] ELSE base[k]]

\* ------------------------------------------------------------------------
\* The reveal server
\* ------------------------------------------------------------------------

\* server.uri while listening
ServerUri == <<"h", "t", "t", "p", ":", "/", "/", "h", ":", "1", "/">>

\* server.start(), server.refresh(), server.stop()
serverStart(c) ==
    [c EXCEPT !.server.isListening = TRUE, !.calls = Append(@, "server.start")]

serverRefresh(c) == [c EXCEPT !.calls = Append(@, "server.refresh")]

serverStop(c) ==
    [c EXCEPT !.server.isListening = FALSE, !.calls = Append(@, "server.stop")]

\* ------------------------------------------------------------------------
\* The Container: getters
\* ------------------------------------------------------------------------

rootDir(c) ==
    IF c.editorContext # None THEN dirname(c.editorContext[1].editor) ELSE <<>>

\* get configuration with the bug of the loaded settings overriding the
\* document options
configurationBaseWins(c) ==
    IF c.editorContext # None /\ hasfrontConfig(c.editorContext[1])
    THEN Overlay(documentOptions(c.editorContext[1]), c.baseConfiguration)
    ELSE c.baseConfiguration

\* get configuration
configuration(c) ==
    IF c.editorContext # None /\ hasfrontConfig(c.editorContext[1])
    THEN Overlay(c.baseConfiguration, documentOptions(c.editorContext[1]))
    ELSE c.baseConfiguration

slides(c) == IF c.editorContext = None THEN <<>> ELSE c.editorContext[1].slides

slideCount(c) == IF c.editorContext = None THEN 0 ELSE Len(c.editorContext[1].slides)

\* get exportPath with the bug of reading the loaded settings instead of the
\* effective configuration
exportPathBaseOnly(c) ==
    IF c.baseConfiguration.exportHTMLPath # <<>>
    THEN c.baseConfiguration.exportHTMLPath
    ELSE rootDir(c) \o <<"export">>

\* path.join(rootDir, 'export') when no export path is configured
exportPath(c) ==
    IF configuration(c).exportHTMLPath # <<>>
    THEN configuration(c).exportHTMLPath
    ELSE rootDir(c) \o <<"export">>

\* getUri with the bug of writing the vertical index before the horizontal
getUriSwapped(c, t, withPosition) ==
    IF ~c.server.isListening \/ c.editorContext = None THEN None
    ELSE LET slidepos == c.editorContext[1].position
         IN  IF withPosition
             THEN Some(ServerUri \o <<"#", "/">> \o NumberToString(slidepos.vertical)
                       \o <<"/">> \o NumberToString(slidepos.horizontal)
                       \o <<"/">> \o NumberToString(t))
             ELSE Some(ServerUri)

\* getUri(withPosition) at time t: None or Some(string)
getUri(c, t, withPosition) ==
    IF ~c.server.isListening \/ c.editorContext = None THEN None
    ELSE LET slidepos == c.editorContext[1].position
         IN  IF withPosition
             THEN Some(ServerUri \o <<"#", "/">> \o NumberToString(slidepos.horizontal)
                       \o <<"/">> \o NumberToString(slidepos.vertical)
                       \o <<"/">> \o NumberToString(t))
             ELSE Some(ServerUri)

\* the markup assigned to webView.html for a uri (`${null}` is "null")
Markup(uri) ==
    <<"<iframe src=\"">> \o (IF uri = None THEN NullString ELSE uri[1]) \o <<"\" />">>

\* refreshWebView with the bug of rendering only when there is a uri
refreshWebViewSkipNull(c, t, view) ==
    LET bound == IF view # None THEN view ELSE c.webView
        c1 == [c EXCEPT !.webView = bound, !.calls = Append(@, "refreshWebView")]
    IN  IF bound # None /\ getUri(c1, t, TRUE) # None
        THEN [c1 EXCEPT !.html = Markup(getUri(c1, t, TRUE))]
        ELSE c1

\* refreshWebView(view?): view is None or Some(view)
refreshWebView(c, t, view) ==
    LET bound == IF view # None THEN view ELSE c.webView
        c1 == [c EXCEPT !.webView = bound, !.calls = Append(@, "refreshWebView")]
    IN  IF bound # None
        THEN [c1 EXCEPT !.html = Markup(getUri(c1, t, TRUE))]
        ELSE c1

\* statusBarController.update(): reads server.uri and slideCount
statusBarUpdate(c) ==
    [c EXCEPT !.statusBar = [uri |-> IF c.server.isListening THEN Some(ServerUri) ELSE None,
                             slideCount |-> slideCount(c)],
              !.calls = Append(@, "statusBarController.update")]

\* slidesExplorer.update(): reads slides
slidesExplorerUpdate(c) ==
    [c EXCEPT !.slidesExplorer = slides(c),
              !.calls = Append(@, "slidesExplorer.update")]

\* ------------------------------------------------------------------------
\* The Container: event handlers
\* ------------------------------------------------------------------------

\* onDidChangeTextEditorSelection with the bug of refreshing the binding
\* before the position is updated and the surface refreshed
onDidChangeTextEditorSelectionRefreshFirst(c, env, event) ==
    IF c.editorContext = None THEN c
    ELSE IF event.textEditor # c.editorContext[1].editor \/ Len(event.selections) = 0
    THEN c
    ELSE LET end == event.selections[1]
             c1 == [c EXCEPT !.editorContext =
                                 Some(EditorContextRefresh(c.editorContext[1],
                                          env.document[c.editorContext[1].editor])),
                             !.calls = Append(@, "editorContext.refresh")]
             c2 == [c1 EXCEPT !.editorContext =
                                  Some(EditorContextUpdatePosition(c1.editorContext[1], end)),
                              !.calls = Append(@, "editorContext.updatePosition")]
             c3 == refreshWebView(c2, env.now, None)
         IN  slidesExplorerUpdate(statusBarUpdate(c3))

\* onDidChangeTextEditorSelection with the bug of not comparing the event's
\* editor with the bound editor
onDidChangeTextEditorSelectionAnyEditor(c, env, event) ==
    IF c.editorContext = None THEN c
    ELSE IF Len(event.selections) = 0
    THEN c
    ELSE LET end == event.selections[1]
             c1 == [c EXCEPT !.editorContext =
                                 Some(EditorContextUpdatePosition(c.editorContext[1], end)),
                             !.calls = Append(@, "editorContext.updatePosition")]
             c2 == refreshWebView(c1, env.now, None)
             c3 == [c2 EXCEPT !.editorContext =
                                  Some(EditorContextRefresh(c2.editorContext[1],
                                           env.document[c2.editorContext[1].editor])),
                              !.calls = Append(@, "editorContext.refresh")]
         IN  slidesExplorerUpdate(statusBarUpdate(c3))

\* onDidChangeTextEditorSelection(event): event is [textEditor, selections],
\* selections the cursor lines of the event's selections
onDidChangeTextEditorSelection(c, env, event) ==
    IF c.editorContext = None THEN c
    ELSE IF event.textEditor # c.editorContext[1].editor \/ Len(event.selections) = 0
    THEN c
    ELSE LET end == event.selections[1]
             c1 == [c EXCEPT !.editorContext =
                                 Some(EditorContextUpdatePosition(c.editorContext[1], end)),
                             !.calls = Append(@, "editorContext.updatePosition")]
             c2 == refreshWebView(c1, env.now, None)
             c3 == [c2 EXCEPT !.editorContext =
                                  Some(EditorContextRefresh(c2.editorContext[1],
                                           env.document[c2.editorContext[1].editor])),
                              !.calls = Append(@, "editorContext.refresh")]
         IN  slidesExplorerUpdate(statusBarUpdate(c3))

\* onDidChangeActiveTextEditor as it would be if an editor that is not
\* markdown cleared the binding
onDidChangeActiveTextEditorClearing(c, env, editor) ==
    LET c1 == IF editor # None /\ languageId(editor[1]) = "markdown"
              THEN [c EXCEPT !.editorContext =
                                 Some(NewEditorContext(editor[1],
                                                       getDocumentOptions(configuration(c)),
                                                       env.document[editor[1]])),
                             !.calls = Append(@, "new EditorContext")]
              ELSE [c EXCEPT !.editorContext = None]
        c2 == serverRefresh(serverStart(c1))
        c3 == refreshWebView(c2, env.now, None)
    IN  slidesExplorerUpdate(statusBarUpdate(c3))

\* onDidChangeActiveTextEditor with the bug of refreshing the surface before
\* the server is started
onDidChangeActiveTextEditorRefreshFirst(c, env, editor) ==
    LET c1 == IF editor # None /\ languageId(editor[1]) = "markdown"
              THEN [c EXCEPT !.editorContext =
                                 Some(NewEditorContext(editor[1],
                                                       getDocumentOptions(configuration(c)),
                                                       env.document[editor[1]])),
                             !.calls = Append(@, "new EditorContext")]
              ELSE c
        c2 == refreshWebView(c1, env.now, None)
        c3 == serverRefresh(serverStart(c2))
    IN  slidesExplorerUpdate(statusBarUpdate(c3))

\* onDidChangeActiveTextEditor(editor): editor is None or Some(editor)
onDidChangeActiveTextEditor(c, env, editor) ==
    LET c1 == IF editor # None /\ languageId(editor[1]) = "markdown"
              THEN [c EXCEPT !.editorContext =
                                 Some(NewEditorContext(editor[1],
                                                       getDocumentOptions(configuration(c)),
                                                       env.document[editor[1]])),
                             !.calls = Append(@, "new EditorContext")]
              ELSE c
        c2 == serverRefresh(serverStart(c1))
        c3 == refreshWebView(c2, env.now, None)
    IN  slidesExplorerUpdate(statusBarUpdate(c3))

\* onDidChangeConfiguration(e): affects is e.affectsConfiguration(extensionId)
onDidChangeConfiguration(c, env, affects) ==
    IF ~affects THEN c
    ELSE [c EXCEPT !.baseConfiguration = env.settings,
                   !.calls = Append(@, "loadConfiguration")]

\* goToSlide with a bounds check added: indices are clamped to the slides
goToSlideClamped(c, env, topindex, verticalIndex) ==
    LET top == IF topindex < slideCount(c) THEN topindex ELSE slideCount(c) - 1
        c1 == IF c.editorContext # None
              THEN [c EXCEPT !.editorContext =
                                 Some(EditorContextGoToSlide(c.editorContext[1], top,
                                          IF verticalIndex <= slides(c)[top + 1]
                                          THEN verticalIndex ELSE slides(c)[top + 1])),
                             !.calls = Append(@, "editorContext.goToSlide")]
              ELSE c
    IN  refreshWebView(c1, env.now, None)

\* goToSlide(topindex, verticalIndex)
goToSlide(c, env, topindex, verticalIndex) ==
    LET c1 == IF c.editorContext # None
              THEN [c EXCEPT !.editorContext =
                                 Some(EditorContextGoToSlide(c.editorContext[1],
                                                             topindex, verticalIndex)),
                             !.calls = Append(@, "editorContext.goToSlide")]
              ELSE c
    IN  refreshWebView(c1, env.now, None)

\* stopServer with the bug of dropping the export session
stopServerCancelling(c) ==
    [statusBarUpdate(serverStop(c)) EXCEPT !.exportPromise = None, !.endDebounce = None]

\* stopServer()
stopServer(c) == statusBarUpdate(serverStop(c))

\* ------------------------------------------------------------------------
\* The Container: the export promise and its debounced callback
\* ------------------------------------------------------------------------

\* debounce(func, wait): a debounced function, no call yet and no timer set
debounce == [lastCallTime |-> None, timerId |-> None]

\* debouncedCall with the bug of never setting the timer
debouncedCallNoTimer(d, t) == [lastCallTime |-> Some(t), timerId |-> d.timerId]

\* debouncedCall with the bug of a call not restarting the wait while the
\* timer is pending
debouncedCallNoRearm(d, t) ==
    IF d.timerId = None THEN [lastCallTime |-> Some(t), timerId |-> Some(t + Wait)] ELSE d

\* a call of the debounced function d at time t: the call time is recorded
\* and the timer is set when none is pending (trailing edge only)
debouncedCall(d, t) ==
    [lastCallTime |-> Some(t),
     timerId |-> IF d.timerId = None THEN Some(t + Wait) ELSE d.timerId]

\* new Promise(...): a pending promise
NewPromise == [status |-> "pending", value |-> None]

\* resolve(value) of promise p: settles a pending promise, else nothing
resolvePromise(p, value) ==
    IF p.status = "pending" THEN [status |-> "resolved", value |-> Some(value)] ELSE p

\* get isInExport with the bug of answering whether the timer was already
\* set
isInExportTimerSet(c, env) ==
    IF c.exportPromise = None THEN [c EXCEPT !.returned.isInExport = FALSE]
    ELSE LET c1 == IF c.endDebounce # None
                   THEN [c EXCEPT !.debounced[c.endDebounce[1]] = debouncedCall(@, env.now),
                                  !.calls = Append(@, "endDebounce")]
                   ELSE c
         IN  [c1 EXCEPT !.returned.isInExport =
                            (c.endDebounce # None /\ c.debounced[c.endDebounce[1]].timerId # None)]

\* get isInExport
isInExport(c, env) ==
    IF c.exportPromise = None THEN [c EXCEPT !.returned.isInExport = FALSE]
    ELSE LET c1 == IF c.endDebounce # None
                   THEN [c EXCEPT !.debounced[c.endDebounce[1]] = debouncedCall(@, env.now),
                                  !.calls = Append(@, "endDebounce")]
                   ELSE c
         IN  [c1 EXCEPT !.returned.isInExport = (c1.exportPromise # None)]

\* startExport with the bug of creating a session although one is pending
startExportAlwaysNew(c, env) ==
    LET c1 == [c EXCEPT !.promises = Append(@, NewPromise),
                        !.exportPromise = Some(Len(c.promises) + 1),
                        !.exportPromiseResolve = Some(Len(c.promises) + 1),
                        !.exportPromiseReject = Some(Len(c.promises) + 1),
                        !.debounced = Append(@, debounce),
                        !.endDebounce = Some(Len(c.debounced) + 1),
                             !.calls = @ \o <<"new Promise", "debounce">>]
        c2 == IF c1.webView # None
              THEN refreshWebView(c1, env.now, None)
              ELSE [c1 EXCEPT !.calls = Append(@, "commands.executeCommand(SHOW_REVEALJS)")]
    IN  [c2 EXCEPT !.returned.startExport = c2.exportPromise]

\* startExport as it would be if the debounced callback were armed when the
\* session is created
startExportArmed(c, env) ==
    LET c1 == IF c.exportPromise = None
              THEN [c EXCEPT !.promises = Append(@, NewPromise),
                             !.exportPromise = Some(Len(c.promises) + 1),
                             !.exportPromiseResolve = Some(Len(c.promises) + 1),
                             !.exportPromiseReject = Some(Len(c.promises) + 1),
                             !.debounced = Append(@, debouncedCall(debounce, env.now)),
                             !.endDebounce = Some(Len(c.debounced) + 1),
                             !.calls = @ \o <<"new Promise", "debounce">>]
              ELSE c
        c2 == IF c1.webView # None
              THEN refreshWebView(c1, env.now, None)
              ELSE [c1 EXCEPT !.calls = Append(@, "commands.executeCommand(SHOW_REVEALJS)")]
    IN  [c2 EXCEPT !.returned.startExport = c2.exportPromise]

\* startExport with the bug of showing the presentation only when it
\* creates the session
startExportRefreshOnCreate(c, env) ==
    LET c1 == IF c.exportPromise = None
              THEN [c EXCEPT !.promises = Append(@, NewPromise),
                             !.exportPromise = Some(Len(c.promises) + 1),
                             !.exportPromiseResolve = Some(Len(c.promises) + 1),
                             !.exportPromiseReject = Some(Len(c.promises) + 1),
                             !.debounced = Append(@, debounce),
                             !.endDebounce = Some(Len(c.debounced) + 1),
                             !.calls = @ \o <<"new Promise", "debounce">>]
              ELSE c
        c2 == IF c.exportPromise # None THEN c1
              ELSE IF c1.webView # None
              THEN refreshWebView(c1, env.now, None)
              ELSE [c1 EXCEPT !.calls = Append(@, "commands.executeCommand(SHOW_REVEALJS)")]
    IN  [c2 EXCEPT !.returned.startExport = c2.exportPromise]

\* startExport with the bug of calling the debounced function when it joins
\* a pending session
startExportRearming(c, env) ==
    LET c1 == IF c.exportPromise = None
              THEN [c EXCEPT !.promises = Append(@, NewPromise),
                             !.exportPromise = Some(Len(c.promises) + 1),
                             !.exportPromiseResolve = Some(Len(c.promises) + 1),
                             !.exportPromiseReject = Some(Len(c.promises) + 1),
                             !.debounced = Append(@, debounce),
                             !.endDebounce = Some(Len(c.debounced) + 1),
                             !.calls = @ \o <<"new Promise", "debounce">>]
              ELSE [c EXCEPT !.debounced[c.endDebounce[1]] = debouncedCall(@, env.now)]
        c2 == IF c1.webView # None
              THEN refreshWebView(c1, env.now, None)
              ELSE [c1 EXCEPT !.calls = Append(@, "commands.executeCommand(SHOW_REVEALJS)")]
    IN  [c2 EXCEPT !.returned.startExport = c2.exportPromise]

\* startExport with the bug of one debounced function shared by all
\* sessions
startExportSharedDebounce(c, env) ==
    LET c1 == IF c.exportPromise = None
              THEN [c EXCEPT !.promises = Append(@, NewPromise),
                             !.exportPromise = Some(Len(c.promises) + 1),
                             !.exportPromiseResolve = Some(Len(c.promises) + 1),
                             !.exportPromiseReject = Some(Len(c.promises) + 1),
                             !.debounced = IF @ = <<>> THEN <<debounce>> ELSE @,
                             !.endDebounce = Some(1),
                             !.calls = @ \o <<"new Promise", "debounce">>]
              ELSE c
        c2 == IF c1.webView # None
              THEN refreshWebView(c1, env.now, None)
              ELSE [c1 EXCEPT !.calls = Append(@, "commands.executeCommand(SHOW_REVEALJS)")]
    IN  [c2 EXCEPT !.returned.startExport = c2.exportPromise]

\* startExport()
startExport(c, env) ==
    LET c1 == IF c.exportPromise = None
              THEN [c EXCEPT !.promises = Append(@, NewPromise),
                             !.exportPromise = Some(Len(c.promises) + 1),
                             !.exportPromiseResolve = Some(Len(c.promises) + 1),
                             !.exportPromiseReject = Some(Len(c.promises) + 1),
                             !.debounced = Append(@, debounce),
                             !.endDebounce = Some(Len(c.debounced) + 1),
                             !.calls = @ \o <<"new Promise", "debounce">>]
              ELSE c
        c2 == IF c1.webView # None
              THEN refreshWebView(c1, env.now, None)
              ELSE [c1 EXCEPT !.calls = Append(@, "commands.executeCommand(SHOW_REVEALJS)")]
    IN  [c2 EXCEPT !.returned.startExport = c2.exportPromise]

\* the function handed to debounce with the bug of rejecting the promise
\* when no export path is configured
endExportRejecting(c) ==
    IF c.exportPromise # None /\ c.exportPromiseResolve # None
    THEN IF configuration(c).exportHTMLPath = <<>>
         THEN [c EXCEPT !.promises[c.exportPromiseReject[1]] =
                               [status |-> "rejected", value |-> None],
                        !.exportPromise = None,
                        !.endDebounce = None,
                        !.calls = Append(@, "exportPromiseReject")]
         ELSE [c EXCEPT !.promises[c.exportPromiseResolve[1]] = resolvePromise(@, exportPath(c)),
                        !.exportPromise = None,
                        !.endDebounce = None,
                        !.calls = Append(@, "exportPromiseResolve")]
    ELSE c

\* the function handed to debounce with the bug of keeping the debounce
\* handle
endExportKeepsDebounce(c) ==
    IF c.exportPromise # None /\ c.exportPromiseResolve # None
    THEN [c EXCEPT !.promises[c.exportPromiseResolve[1]] = resolvePromise(@, exportPath(c)),
                   !.exportPromise = None,
                   !.calls = Append(@, "exportPromiseResolve")]
    ELSE c

\* the function handed to debounce
endExport(c) ==
    IF c.exportPromise # None /\ c.exportPromiseResolve # None
    THEN [c EXCEPT !.promises[c.exportPromiseResolve[1]] = resolvePromise(@, exportPath(c)),
                   !.exportPromise = None,
                   !.endDebounce = None,
                   !.calls = Append(@, "exportPromiseResolve")]
    ELSE c

\* the timer of debounced function i expires at time t: the function is
\* invoked when wait has passed since its last call, else the timer is set
\* again for the rest of the wait
timerExpired(c, i, t) ==
    LET d == c.debounced[i]
    IN  IF t - d.lastCallTime[1] >= Wait
        THEN endExport([c EXCEPT !.debounced[i].timerId = None])
        ELSE [c EXCEPT !.debounced[i].timerId = Some(t + (Wait - (t - d.lastCallTime[1])))]

\* ------------------------------------------------------------------------
\* Initial state and actions
\* ------------------------------------------------------------------------

\* slide indices handed to goToSlide
MaxIndex == 1

Indices == 0..MaxIndex

\* the selections of a selection-changed event, as the cursor lines of its
\* selections: none, one cursor, or two cursors of which the first counts
Selections == {<<>>, <<1>>, <<3, 1>>}

\* what a handler returns: the flag of isInExport, the future of startExport
NoReturn == [isInExport |-> FALSE, startExport |-> None]

\* the Container's fields before a handler runs
Cur ==
    [editorContext |-> editorContext, baseConfiguration |-> baseConfiguration,
     webView |-> webView, html |-> html, server |-> server, statusBar |-> statusBar,
     slidesExplorer |-> slidesExplorer, exportPromise |-> exportPromise,
     exportPromiseResolve |-> exportPromiseResolve,
     exportPromiseReject |-> exportPromiseReject, endDebounce |-> endDebounce,
     promises |-> promises, debounced |-> debounced, calls |-> <<>>, returned |-> NoReturn]

Env == [now |-> now, document |-> document, settings |-> settings]

\* a handler ran and left the Container's fields as in c
Commit(c) ==
    /\ editorContext' = c.editorContext
    /\ baseConfiguration' = c.baseConfiguration
    /\ webView' = c.webView
    /\ html' = c.html
    /\ server' = c.server
    /\ statusBar' = c.statusBar
    /\ slidesExplorer' = c.slidesExplorer
    /\ exportPromise' = c.exportPromise
    /\ exportPromiseResolve' = c.exportPromiseResolve
    /\ exportPromiseReject' = c.exportPromiseReject
    /\ endDebounce' = c.endDebounce
    /\ promises' = c.promises
    /\ debounced' = c.debounced
    /\ calls' = c.calls
    /\ returned' = c.returned
    /\ UNCHANGED <<now, document, settings>>

\* a session is pending: the last promise created is not settled
Pending == promises # <<>> /\ promises[Len(promises)].status = "pending"

\* the export path at the creation of a session is forgotten by the step
\* after the session settled
Forget == startPath' = IF Pending THEN startPath ELSE None

\* the bookkeeping of the pending session: when it was created and when
\* isInExport was last queried on it; both are forgotten when it settles.
\* The export path at the creation of a session is kept until the session
\* has settled and is forgotten by the step after.
Observe(isQuery) ==
    /\ createdAt' = IF Len(promises') > Len(promises) THEN Some(now)
                    ELSE IF promises' # promises THEN None
                    ELSE createdAt
    /\ lastQueryAt' = IF promises' # promises THEN None
                      ELSE IF isQuery /\ Pending THEN Some(now)
                      ELSE lastQueryAt
    /\ startPath' = IF Len(promises') > Len(promises) THEN Some(exportPath(Cur))
                    ELSE IF Pending THEN startPath
                    ELSE None

\* the constructor: configuration loaded, no binding, no surface, server
\* not started, status bar updated, slide explorer registered
Init ==
    /\ settings \in Settings
    /\ document = [e \in MarkdownEditors |->
                      IF e = "a.md" THEN [lines |-> <<"t", "h", "v">>, front |-> None]
                      ELSE [lines |-> <<"t", "h">>,
                            front |-> Some([exportHTMLPath |-> <<"fm">>])]]
    /\ now = 0
    /\ editorContext = None
    /\ baseConfiguration = settings
    /\ webView = None
    /\ html = <<>>
    /\ server = [isListening |-> FALSE]
    /\ statusBar = [uri |-> None, slideCount |-> 0]
    /\ slidesExplorer = <<>>
    /\ exportPromise = None
    /\ exportPromiseResolve = None
    /\ exportPromiseReject = None
    /\ endDebounce = None
    /\ promises = <<>>
    /\ debounced = <<>>
    /\ calls = <<>>
    /\ returned = NoReturn
    /\ createdAt = None
    /\ lastQueryAt = None
    /\ startPath = None

SelectionChangedWith(e, sel) ==
    /\ Commit(onDidChangeTextEditorSelection(Cur, Env, [textEditor |-> e, selections |-> sel]))
    /\ Observe(FALSE)

SelectionChanged == \E e \in Editors, sel \in Selections : SelectionChangedWith(e, sel)

ActiveEditorChangedWith(editor) ==
    /\ Commit(onDidChangeActiveTextEditor(Cur, Env, editor))
    /\ Observe(FALSE)

ActiveEditorChanged ==
    \E editor \in {None} \cup {Some(e) : e \in Editors} : ActiveEditorChangedWith(editor)

ConfigurationChangedWith(affects) ==
    /\ Commit(onDidChangeConfiguration(Cur, Env, affects))
    /\ Observe(FALSE)

ConfigurationChanged == \E affects \in BOOLEAN : ConfigurationChangedWith(affects)

GoToSlideWith(topindex, verticalIndex) ==
    /\ Commit(goToSlide(Cur, Env, topindex, verticalIndex))
    /\ Observe(FALSE)

GoToSlide == \E topindex \in Indices, verticalIndex \in Indices : GoToSlideWith(topindex, verticalIndex)

StopServer ==
    /\ Commit(stopServer(Cur))
    /\ Observe(FALSE)

RefreshWebViewWith(view) ==
    /\ Commit(refreshWebView(Cur, now, view))
    /\ Observe(FALSE)

RefreshWebView == \E view \in {None} \cup {Some(v) : v \in Views} : RefreshWebViewWith(view)

StartExport ==
    /\ exportPromise = None => Len(promises) < MaxExports
    /\ Commit(startExport(Cur, Env))
    /\ Observe(FALSE)

IsInExport ==
    /\ Commit(isInExport(Cur, Env))
    /\ Observe(TRUE)

\* the event loop runs a timer that is due
TimerExpired ==
    \E i \in 1..Len(debounced) :
        /\ debounced[i].timerId # None
        /\ debounced[i].timerId[1] <= now
        /\ Commit(timerExpired(Cur, i, now))
        /\ Observe(FALSE)

\* the due times of the timers that are set
DueTimes ==
    {debounced[i].timerId[1] : i \in {j \in 1..Len(debounced) : debounced[j].timerId # None}}

\* time passes, up to the next due timer: a due timer runs before the clock
\* moves on
Tick ==
    /\ now < MaxNow
    /\ \A due \in DueTimes : now < due
    /\ now' = Min({now + TickStep, MaxNow} \cup DueTimes)
    /\ UNCHANGED <<containerVars, calls, returned, document, settings,
                   createdAt, lastQueryAt>>
    /\ Forget

\* the user edits the document of editor a.md
EditDocument ==
    \E d \in Documents :
        /\ document' = [document EXCEPT !["a.md"] = d]
        /\ UNCHANGED <<containerVars, calls, returned, now, settings,
                       createdAt, lastQueryAt>>
        /\ Forget

\* the user changes the settings of the extension
ChangeSettings ==
    \E v \in Settings :
        /\ settings' = v
        /\ UNCHANGED <<containerVars, calls, returned, now, document,
                       createdAt, lastQueryAt>>
        /\ Forget

\* the whole system: every handler, the timers, the clock, the editor host
Next ==
    \/ SelectionChanged
    \/ ActiveEditorChanged
    \/ ConfigurationChanged
    \/ GoToSlide
    \/ StopServer
    \/ RefreshWebView
    \/ StartExport
    \/ IsInExport
    \/ TimerExpired
    \/ Tick
    \/ EditDocument
    \/ ChangeSettings

Spec == Init /\ [][Next]_vars

\* The editor host with all its editors, views, selections and edits, while
\* no export is requested and the settings stay as they were loaded.
NextHost ==
    \/ SelectionChanged
    \/ ActiveEditorChanged
    \/ GoToSlide
    \/ StopServer
    \/ RefreshWebView
    \/ Tick
    \/ EditDocument

SpecHost == Init /\ [][NextHost]_vars

\* The export protocol with every handler interleaved, the timers and the
\* clock; the editor host is one markdown editor, one other editor and one
\* view, and the documents are not edited.
ExportEditors == {"a.md", "c.txt"}

ExportSelections == {<<>>, <<3, 1>>}

ExportViews == {"w1"}

NextExport ==
    \/ \E e \in ExportEditors, sel \in ExportSelections : SelectionChangedWith(e, sel)
    \/ \E editor \in {None} \cup {Some(e) : e \in ExportEditors} : ActiveEditorChangedWith(editor)
    \/ ConfigurationChanged
    \/ GoToSlideWith(MaxIndex, MaxIndex)
    \/ StopServer
    \/ \E view \in {None} \cup {Some(v) : v \in ExportViews} : RefreshWebViewWith(view)
    \/ StartExport
    \/ IsInExport
    \/ TimerExpired
    \/ Tick
    \/ ChangeSettings

SpecExport == Init /\ [][NextExport]_vars

\* The configuration and the binding changing under the export protocol: the
\* active editor moves between no editor, a markdown document without front
\* matter, one with front matter and another file; the settings change and
\* are reloaded; no view is attached.
NextConfig ==
    \/ ActiveEditorChanged
    \/ ConfigurationChanged
    \/ ChangeSettings
    \/ StartExport
    \/ IsInExport
    \/ TimerExpired
    \/ Tick

SpecConfig == Init /\ [][NextConfig]_vars

\* ------------------------------------------------------------------------
\* The export protocol
\* ------------------------------------------------------------------------

\* the coordinator is Idle: no session and no debounce handle
Idle == exportPromise = None /\ endDebounce = None

\* the debounced function of the pending session
PendingDebounced == debounced[Len(promises)]

\* C1: whenever startExport() is called while an export session is pending,
\* whatever handlers ran since the session was created, it returns the future
\* of that session and creates no new promise and no new debounced function.
C1_StartExportJoinsPending ==
    [][(Pending /\ StartExport) =>
          /\ returned'.startExport = Some(Len(promises))
          /\ promises' = promises
          /\ debounced' = debounced
          /\ exportPromise' = exportPromise]_vars

\* C1 witness: a startExport() has run on a session created earlier (the
\* markup it pushed carries a later timestamp) and returned that session's
\* future.
C1_Witness ==
    /\ Pending
    /\ createdAt # None /\ createdAt[1] < now
    /\ returned.startExport = Some(Len(promises))
    /\ calls = <<"refreshWebView">>
    /\ getUri(Cur, now, TRUE) # None
    /\ html = Markup(getUri(Cur, now, TRUE))

\* C2: a pending session that was queried is never found more than Wait ms
\* after its last isInExport query: by then its future is settled, and when no
\* future is pending the coordinator is Idle.
C2_ResolvedAfterQuietPeriod ==
    /\ (Pending /\ lastQueryAt # None) => now - lastQueryAt[1] <= Wait
    /\ ~Pending => Idle
    /\ \A i \in 1..Len(promises) : i < Len(promises) => promises[i].status = "resolved"

\* C2 witness: the debounced callback has just resolved the future of a
\* session, Wait ms after the last query, and the coordinator is Idle.
C2_Witness ==
    /\ promises # <<>>
    /\ promises[Len(promises)].status = "resolved"
    /\ calls = <<"exportPromiseResolve">>
    /\ debounced[Len(promises)].lastCallTime = Some(now - Wait)
    /\ Idle

\* C3: the future of a session is settled only in a step taken at least Wait
\* ms after the last isInExport query of that session, so queries less than
\* Wait ms apart keep the session pending.
C3_QueriesPostponeResolution ==
    [][(Pending /\ ~Pending') =>
          (lastQueryAt # None /\ now - lastQueryAt[1] >= Wait)]_vars

\* C3 witness: the timer set by an earlier query is due, a later query was
\* made less than Wait ms after that one, and the session is still pending.
C3_Witness ==
    /\ Pending
    /\ PendingDebounced.timerId # None
    /\ PendingDebounced.timerId[1] <= now
    /\ lastQueryAt # None
    /\ lastQueryAt[1] > PendingDebounced.timerId[1] - Wait
    /\ now - lastQueryAt[1] < Wait

\* C4 as stated: a session on which isInExport was never queried is settled
\* once Wait ms have passed since startExport() created it.
C4_ArmedAtCreation ==
    (Pending /\ lastQueryAt = None /\ createdAt # None) => now - createdAt[1] <= Wait

\* C4 amended: startExport() in Idle creates the session and a debounced
\* callback whose timer is not set; a session on which isInExport was never
\* queried has no timer and stays pending however much time passes.
C4_ArmedByFirstQuery ==
    (promises # <<>> /\ lastQueryAt = None /\ createdAt # None) =>
        /\ Pending
        /\ exportPromise = Some(Len(promises))
        /\ endDebounce = Some(Len(promises))
        /\ PendingDebounced.timerId = None

\* C4 witness: a session never queried is still pending more than Wait ms
\* after its creation.
C4_Witness ==
    /\ Pending
    /\ lastQueryAt = None
    /\ createdAt # None
    /\ now - createdAt[1] > Wait
    /\ PendingDebounced.timerId = None

\* ------------------------------------------------------------------------
\* Reading a uri back: its parts and its numbers
\* ------------------------------------------------------------------------

RECURSIVE FirstIndex(_, _, _)
\* the first index from i on at which str holds ch, 0 when there is none
FirstIndex(str, ch, i) ==
    IF i > Len(str) THEN 0
    ELSE IF str[i] = ch THEN i
    ELSE FirstIndex(str, ch, i + 1)

\* the part of a uri before its first '#'
BeforeHash(str) ==
    LET i == FirstIndex(str, "#", 1)
    IN  IF i = 0 THEN str ELSE SubSeq(str, 1, i - 1)

\* the part of a uri after its first '#', empty when it has none
Fragment(str) ==
    LET i == FirstIndex(str, "#", 1)
    IN  IF i = 0 THEN <<>> ELSE SubSeq(str, i + 1, Len(str))

RECURSIVE SplitBy(_, _)
\* the fields of str between the occurrences of ch
SplitBy(str, ch) ==
    LET i == FirstIndex(str, ch, 1)
    IN  IF i = 0 THEN <<str>>
        ELSE <<SubSeq(str, 1, i - 1)>> \o SplitBy(SubSeq(str, i + 1, Len(str)), ch)

IsNumber(chars) ==
    chars # <<>> /\ \A i \in 1..Len(chars) : \E d \in 1..10 : DigitChars[d] = chars[i]

RECURSIVE ParseNumber(_)
\* the number written by the digits chars
ParseNumber(chars) ==
    IF chars = <<>> THEN 0
    ELSE ParseNumber(SubSeq(chars, 1, Len(chars) - 1)) * 10
             + ((CHOOSE d \in 1..10 : DigitChars[d] = chars[Len(chars)]) - 1)

\* sub occurs in str
IsInfix(sub, str) ==
    \E i \in 1..(Len(str) - Len(sub) + 1) : SubSeq(str, i, i + Len(sub) - 1) = sub

\* ------------------------------------------------------------------------
\* The editor host
\* ------------------------------------------------------------------------

\* the active editors that are not markdown editors, and no editor
NotMarkdown == {None} \cup {Some(e) : e \in Editors \ MarkdownEditors}

\* the collaborator calls of onDidChangeActiveTextEditor after the binding
ActiveEditorCalls ==
    <<"server.start", "server.refresh", "refreshWebView", "statusBarController.update",
      "slidesExplorer.update">>

\* the collaborator calls of an accepted selection-changed event
SelectionCalls ==
    <<"editorContext.updatePosition", "refreshWebView", "editorContext.refresh",
      "statusBarController.update", "slidesExplorer.update">>

\* C5 as stated: when the active editor changes from a bound markdown
\* document to an editor that is not markdown, or to no editor, the binding
\* becomes absent, slides is empty, slideCount is 0 and getUri is absent.
C5_BindingCleared ==
    [][\A editor \in NotMarkdown :
          (editorContext # None /\ ActiveEditorChangedWith(editor)) =>
              /\ editorContext' = None
              /\ slides(Cur)' = <<>>
              /\ slideCount(Cur)' = 0
              /\ getUri(Cur, now, TRUE)' = None]_vars

\* C5 amended: when the active editor changes from a bound markdown document
\* to an editor that is not markdown, or to no editor, the binding is kept as
\* it is: slides and slideCount still report the bound document, and getUri
\* is present because the handler has started the server.
C5_BindingKept ==
    [][\A editor \in NotMarkdown :
          (editorContext # None /\ ActiveEditorChangedWith(editor)) =>
              /\ editorContext' = editorContext
              /\ slides(Cur)' = editorContext[1].slides
              /\ slideCount(Cur)' = Len(editorContext[1].slides)
              /\ slideCount(Cur)' > 0
              /\ getUri(Cur, now, FALSE)' = Some(ServerUri)]_vars

\* C5 witness: the last handler was an active-editor change that created no
\* binding, and a binding with slides is present.
C5_Witness ==
    /\ calls = ActiveEditorCalls
    /\ editorContext # None
    /\ Len(slides(Cur)) = 2
    /\ getUri(Cur, now, FALSE) # None

\* C6: getUri(withPosition) is absent exactly when the server is not
\* listening or there is no binding; otherwise getUri(false) is the server's
\* uri with no '#' in it, and getUri(true) is the server's uri, a '#', and
\* the fields /horizontal/vertical/timestamp that read back as the binding's
\* position and the current time.
C6_GetUri ==
    LET absent == ~server.isListening \/ editorContext = None
        plain == getUri(Cur, now, FALSE)
        full == getUri(Cur, now, TRUE)
    IN  /\ (plain = None) <=> absent
        /\ (full = None) <=> absent
        /\ ~absent =>
              LET fields == SplitBy(Fragment(full[1]), "/")
              IN  /\ plain[1] = ServerUri
                  /\ FirstIndex(plain[1], "#", 1) = 0
                  /\ BeforeHash(full[1]) = ServerUri
                  /\ Len(fields) = 4
                  /\ fields[1] = <<>>
                  /\ \A i \in 2..4 : IsNumber(fields[i])
                  /\ ParseNumber(fields[2]) = editorContext[1].position.horizontal
                  /\ ParseNumber(fields[3]) = editorContext[1].position.vertical
                  /\ ParseNumber(fields[4]) = now

\* C6 witness: the uri with position has been pushed to the surface for a
\* position whose indices differ, at a time after 0.
C6_Witness ==
    /\ server.isListening
    /\ editorContext # None
    /\ editorContext[1].position.horizontal # editorContext[1].position.vertical
    /\ now > 0
    /\ webView # None
    /\ html = Markup(getUri(Cur, now, TRUE))

\* the fragment /top/vertical/ occurs in the fragment of uri
HasSlideFragment(uri, top, vertical) ==
    /\ uri # None
    /\ IsInfix(<<"/">> \o NumberToString(top) \o <<"/">> \o NumberToString(vertical) \o <<"/">>,
               Fragment(uri[1]))

\* C7 as stated: goToSlide(top, vertical) with a binding present, followed
\* at once by getUri(true), yields a string whose fragment holds
\* /top/vertical/.
C7_GoToSlideThenUri ==
    [][\A top \in Indices, vertical \in Indices :
          (editorContext # None /\ GoToSlideWith(top, vertical)) =>
              HasSlideFragment(getUri(Cur, now, TRUE)', top, vertical)]_vars

\* C7 amended: goToSlide(top, vertical) with a binding present and the server
\* listening, followed at once by getUri(true), yields a string whose fragment
\* holds /top/vertical/, whatever the indices and the slides are.
C7_GoToSlideThenUriListening ==
    [][\A top \in Indices, vertical \in Indices :
          (editorContext # None /\ server.isListening /\ GoToSlideWith(top, vertical)) =>
              /\ HasSlideFragment(getUri(Cur, now, TRUE)', top, vertical)
              /\ editorContext'[1].position = [horizontal |-> top, vertical |-> vertical]]_vars

\* C7 witness: goToSlide has set a position beyond the slides of the bound
\* document and the surface shows it.
C7_Witness ==
    /\ calls = <<"editorContext.goToSlide", "refreshWebView">>
    /\ editorContext # None
    /\ server.isListening
    /\ editorContext[1].position.horizontal >= slideCount(Cur)
    /\ webView # None
    /\ HasSlideFragment(getUri(Cur, now, TRUE), editorContext[1].position.horizontal,
                        editorContext[1].position.vertical)

\* a selection-changed event is accepted: a binding is present, the event's
\* editor is the bound editor and the event has a selection
Accepted(e, sel) ==
    editorContext # None /\ e = editorContext[1].editor /\ sel # <<>>

\* the Container's fields with the binding's position set to pos
AtPosition(pos) == [Cur EXCEPT !.editorContext = Some([editorContext[1] EXCEPT !.position = pos])]

\* C8: an accepted selection-changed event makes exactly the calls
\* updatePosition, refreshWebView, refresh, statusBar update, slide-list
\* update, in this order: the position is that of the first selection's cursor
\* in the slide table the binding had before the event, the markup pushed to a
\* bound surface is built from that position, and the binding, the status view
\* and the slide list then show the document as it is now.
C8_SelectionOrder ==
    [][\A e \in Editors, sel \in Selections :
          (Accepted(e, sel) /\ SelectionChangedWith(e, sel)) =>
              LET pos == SlidePosition(editorContext[1].lines, sel[1])
                  fresh == ParseSlides(document[e].lines)
              IN  /\ calls' = SelectionCalls
                  /\ editorContext'[1].position = pos
                  /\ webView # None => html' = Markup(getUri(AtPosition(pos), now, TRUE))
                  /\ webView' = webView
                  /\ editorContext'[1].lines = document[e].lines
                  /\ editorContext'[1].slides = fresh
                  /\ statusBar'.slideCount = Len(fresh)
                  /\ slidesExplorer' = fresh]_vars

\* C8 witness: an accepted selection-changed event has run on a binding whose
\* slide table was older than the document: the surface shows a position of
\* the old table that the refreshed slides no longer hold.
C8_Witness ==
    /\ calls = SelectionCalls
    /\ webView # None
    /\ getUri(Cur, now, TRUE) # None
    /\ html = Markup(getUri(Cur, now, TRUE))
    /\ editorContext[1].position.horizontal >= Len(editorContext[1].slides)
    /\ slidesExplorer = editorContext[1].slides

\* C9: every active-editor-changed event makes the calls server start, server
\* refresh, refreshWebView, statusBar update, slide-list update, in this order;
\* for a markdown editor a fresh binding of that editor replaces the binding
\* before them, for any other editor the binding is untouched; the surface and
\* the views therefore show the binding and the started server.
C9_ActiveEditorOrder ==
    [][\A editor \in {None} \cup {Some(e) : e \in Editors} :
          ActiveEditorChangedWith(editor) =>
              LET markdown == editor # None /\ editor[1] \in MarkdownEditors
              IN  /\ calls' = (IF markdown THEN <<"new EditorContext">> ELSE <<>>)
                                  \o ActiveEditorCalls
                  /\ markdown =>
                        /\ editorContext' # None
                        /\ Len(editorContext') = 1
                        /\ editorContext'[1].editor = editor[1]
                        /\ editorContext'[1].position = [horizontal |-> 0, vertical |-> 0]
                        /\ editorContext'[1].slides = ParseSlides(document[editor[1]].lines)
                  /\ ~markdown => editorContext' = editorContext
                  /\ server'.isListening
                  /\ (webView # None /\ editorContext' # None) =>
                        /\ getUri(Cur, now, TRUE)' # None
                        /\ html' = Markup(getUri(Cur, now, TRUE)')
                  /\ statusBar' = [uri |-> Some(ServerUri), slideCount |-> slideCount(Cur)']
                  /\ slidesExplorer' = slides(Cur)']_vars

\* C9 witness: an active-editor-changed event for markdown editor b.md has
\* replaced the binding, and the surface and the views show the new binding.
C9_Witness ==
    /\ calls = <<"new EditorContext">> \o ActiveEditorCalls
    /\ editorContext # None
    /\ editorContext[1].editor = "b.md"
    /\ webView # None
    /\ html = Markup(getUri(Cur, now, TRUE))
    /\ statusBar.slideCount = 2
    /\ now > 0

\* C10: a selection-changed event that arrives when there is no binding, or
\* from an editor that is not the bound one, or with no selection, changes no
\* field of the Container (position, binding, surface markup, export session,
\* views) and makes no collaborator call.
C10_IgnoredSelection ==
    [][\A e \in Editors, sel \in Selections :
          (~Accepted(e, sel) /\ SelectionChangedWith(e, sel)) =>
              /\ UNCHANGED containerVars
              /\ calls' = <<>>]_vars

\* C10 witness: with a binding present, a surface attached and an export
\* session pending with its timer set, the last handler made no call.
C10_Witness ==
    /\ calls = <<>>
    /\ returned = NoReturn
    /\ editorContext # None
    /\ webView # None
    /\ Pending
    /\ PendingDebounced.timerId # None

\* ------------------------------------------------------------------------
\* The configuration
\* ------------------------------------------------------------------------

\* the front-matter options of the bound document, None without a binding
\* or without front matter
FrontOverrides ==
    IF editorContext # None /\ editorContext[1].front # None
    THEN editorContext[1].front
    ELSE None

\* C11: the base configuration changes only in a configuration-changed event
\* that affects the extension's namespace, where it becomes what the settings
\* loader returns; an event that does not affect it leaves it unchanged. The
\* effective configuration read in any state is the base configuration with
\* each key that the bound document's front matter sets replaced by the
\* front-matter value, and the base configuration when there is no binding
\* or no front matter.
C11_Configuration ==
    /\ [](/\ DOMAIN configuration(Cur) = DOMAIN baseConfiguration
          /\ \A k \in DOMAIN baseConfiguration :
                configuration(Cur)[k] =
                    IF FrontOverrides # None /\ k \in DOMAIN FrontOverrides[1]
                    THEN FrontOverrides[1][k]
                    ELSE baseConfiguration[k])
    /\ [][/\ \A affects \in BOOLEAN :
                ConfigurationChangedWith(affects) =>
                    baseConfiguration' = IF affects THEN settings ELSE baseConfiguration
          /\ baseConfiguration' # baseConfiguration => ConfigurationChangedWith(TRUE)]_vars

\* C11 happens: the settings were reloaded while a document with front
\* matter is bound, and the front-matter export path overrides the loaded one
\* while the theme is the loaded one.
C11_Witness ==
    /\ calls = <<"loadConfiguration">>
    /\ FrontOverrides # None
    /\ baseConfiguration.exportHTMLPath = <<"out">>
    /\ configuration(Cur).exportHTMLPath = <<"fm">>
    /\ configuration(Cur).theme = baseConfiguration.theme

\* ------------------------------------------------------------------------
\* The render surface
\* ------------------------------------------------------------------------

\* what the iframe's src reads for the uri that getUri() returns now
SrcNow ==
    IF getUri(Cur, now, TRUE) = None THEN NullString ELSE getUri(Cur, now, TRUE)[1]

\* C12: refreshWebView(view?) binds the view when one is given and keeps the
\* bound one otherwise; when a view is bound after that, its html is assigned
\* the markup whose iframe src is getUri(), "null" when getUri() is absent;
\* while no view was ever attached no html is assigned by any handler; and
\* no step takes a bound view away.
C12_RefreshWebView ==
    /\ [](webView = None => html = <<>>)
    /\ [][/\ \A view \in {None} \cup {Some(v) : v \in Views} :
                RefreshWebViewWith(view) =>
                    /\ webView' = IF view # None THEN view ELSE webView
                    /\ webView' # None =>
                            html' = <<"<iframe src=\"">> \o SrcNow \o <<"\" />">>
                    /\ webView' = None => html' = html
          /\ webView # None => webView' # None]_vars

\* C12 happens: refreshWebView replaced the bound view while getUri() is
\* absent, and the new view's iframe reads "null".
C12_Witness ==
    /\ calls = <<"refreshWebView">>
    /\ webView = Some("w2")
    /\ getUri(Cur, now, TRUE) = None
    /\ html = <<"<iframe src=\"">> \o NullString \o <<"\" />">>

\* ------------------------------------------------------------------------
\* The export session's life
\* ------------------------------------------------------------------------

\* C13: a step in which a pending session ends (the export promise or the
\* debounce handle is cleared or replaced, the pending promise is settled, or
\* a set timer is cancelled) is the debounced callback firing, which resolves
\* the promise and leaves the coordinator Idle; startExport, isInExport, the
\* editor and configuration events, goToSlide, stopServer and refreshWebView
\* never end it.
C13_OnlyCallbackSettles ==
    [][(\/ exportPromise # None /\ exportPromise' # exportPromise
        \/ endDebounce # None /\ endDebounce' # endDebounce
        \/ Pending /\ promises' # promises
        \/ \E i \in 1..Len(debounced) :
              debounced[i].timerId # None /\ debounced'[i].timerId = None)
       => /\ TimerExpired
          /\ calls' = <<"exportPromiseResolve">>
          /\ Len(promises') = Len(promises)
          /\ promises'[Len(promises)].status = "resolved"
          /\ exportPromise' = None
          /\ endDebounce' = None]_vars

\* C13 happens: stopServer ran while a session was pending with its timer
\* set, and the session is still pending with the timer set.
C13_Witness ==
    /\ calls # <<>>
    /\ calls[1] = "server.stop"
    /\ Pending
    /\ exportPromise = Some(Len(promises))
    /\ endDebounce = Some(Len(promises))
    /\ PendingDebounced.timerId # None

\* handler call name occurs in the call log
Called(log, name) == \E i \in 1..Len(log) : log[i] = name

\* C14: the reject function is never called and no promise is ever rejected;
\* the resolve function is called only by the debounced callback and only on
\* a promise that is still pending, which it resolves; a resolved promise never
\* changes afterwards; a promise that is not resolved is the pending session's.
C14_ResolvedOnceNeverRejected ==
    /\ [](/\ ~Called(calls, "exportPromiseReject")
          /\ \A i \in 1..Len(promises) :
                /\ promises[i].status \in {"pending", "resolved"}
                /\ promises[i].status = "pending" =>
                        i = Len(promises) /\ exportPromiseResolve = Some(i))
    /\ [][/\ (TimerExpired /\ Called(calls', "exportPromiseResolve")) =>
                /\ exportPromiseResolve # None
                /\ promises[exportPromiseResolve[1]].status = "pending"
                /\ promises'[exportPromiseResolve[1]].status = "resolved"
          /\ (Len(promises') = Len(promises) /\ promises' # promises) =>
                TimerExpired /\ Called(calls', "exportPromiseResolve")
          /\ \A i \in 1..Len(promises) :
                promises[i].status = "resolved" => promises'[i] = promises[i]]_vars

\* C14 happens: the first session's promise was resolved with a path and
\* stays so while a second session is pending.
C14_Witness ==
    /\ Len(promises) = 2
    /\ promises[1].status = "resolved"
    /\ promises[1].value # None
    /\ promises[2].status = "pending"

\* what startExport() does before it shows the presentation: it creates the
\* promise and the debounced callback when no session is pending
CreationCalls == IF exportPromise = None THEN <<"new Promise", "debounce">> ELSE <<>>

\* C15: every startExport(), creating or joining, after the session is there
\* and before it returns the session's promise, calls refreshWebView() when a
\* view is bound, which assigns the view's html, and otherwise executes the
\* show-preview command and assigns no html.
C15_StartExportShows ==
    [][StartExport =>
          /\ IF webView # None
             THEN /\ calls' = CreationCalls \o <<"refreshWebView">>
                  /\ html' = Markup(getUri(Cur, now, TRUE))
                  /\ webView' = webView
             ELSE /\ calls' = CreationCalls \o <<"commands.executeCommand(SHOW_REVEALJS)">>
                  /\ html' = html
                  /\ webView' = None
          /\ exportPromise' # None
          /\ returned'.startExport = exportPromise']_vars

\* C15 happens: startExport() joined a pending session while no view was
\* bound and executed the show-preview command.
C15_Witness ==
    /\ calls = <<"commands.executeCommand(SHOW_REVEALJS)">>
    /\ webView = None
    /\ html = <<>>
    /\ Pending
    /\ returned.startExport = Some(Len(promises))

\* C16: isInExport returns true exactly when a session is pending and false
\* when the coordinator is Idle, and never changes which of the two it is: in
\* Idle it changes nothing and calls nothing; while pending it only calls the
\* debounced function, which records the time of the call and leaves the
\* timer set, and the promise, the session and every other field stay.
C16_IsInExport ==
    [][IsInExport =>
          /\ returned'.isInExport = Pending
          /\ Pending' = Pending
          /\ Idle' = Idle
          /\ Pending = ~Idle
          /\ promises' = promises
          /\ exportPromise' = exportPromise
          /\ endDebounce' = endDebounce
          /\ UNCHANGED <<editorContext, baseConfiguration, webView, html, server,
                         statusBar, slidesExplorer>>
          /\ IF Pending
             THEN /\ calls' = <<"endDebounce">>
                  /\ debounced' = [debounced EXCEPT ![Len(promises)] = debounced'[Len(promises)]]
                  /\ debounced'[Len(promises)].lastCallTime = Some(now)
                  /\ debounced'[Len(promises)].timerId # None
             ELSE calls' = <<>> /\ debounced' = debounced]_vars

\* C16 happens: isInExport was queried on a pending session whose timer was
\* not yet set, answered true, and the session is pending with its timer set.
C16_Witness ==
    /\ calls = <<"endDebounce">>
    /\ returned.isInExport
    /\ Pending
    /\ PendingDebounced.timerId = Some(now + Wait)
    /\ createdAt # None
    /\ createdAt[1] < now

\* the export path of the state as it is: the export path of the front
\* matter of the bound document if it sets one, else the loaded one, and if
\* that is empty the folder export in the directory of the bound document
PathNow ==
    LET configured ==
            IF FrontOverrides # None /\ "exportHTMLPath" \in DOMAIN FrontOverrides[1]
            THEN FrontOverrides[1].exportHTMLPath
            ELSE baseConfiguration.exportHTMLPath
        dir == IF editorContext # None THEN dirname(editorContext[1].editor) ELSE <<>>
    IN  IF configured # <<>> THEN configured ELSE dir \o <<"export">>

\* C17: the value a session's promise is resolved with is the export path of
\* the state in which the callback fires, whatever it was when startExport()
\* created the session.
C17_PathAtFiring ==
    [][(Pending /\ ~Pending') => promises'[Len(promises)].value = Some(PathNow)]_vars

\* C17 happens: the callback has just resolved the promise with the export
\* path of the state it fired in, which is not the export path the
\* coordinator had when the session was created.
C17_Witness ==
    /\ calls = <<"exportPromiseResolve">>
    /\ promises # <<>>
    /\ promises[Len(promises)].value = Some(PathNow)
    /\ startPath # None
    /\ startPath # Some(PathNow)

\* C18: in every state between handlers the export promise is set exactly
\* when the debounce handle is set; both are unset when no session is pending
\* and both belong to the last session created when one is; at most one
\* promise is pending.
C18_PromiseIffHandle ==
    /\ exportPromise = None <=> endDebounce = None
    /\ Pending <=> exportPromise # None
    /\ exportPromise # None =>
          /\ exportPromise = Some(Len(promises))
          /\ endDebounce = Some(Len(debounced))
    /\ Len(debounced) = Len(promises)
    /\ Cardinality({i \in 1..Len(promises) : promises[i].status = "pending"}) <= 1

\* C18 happens: the callback cleared the promise and the handle of the first
\* session, and startExport() set both again for the second.
C18_Witness ==
    /\ Len(promises) = 2
    /\ promises[1].status = "resolved"
    /\ exportPromise = Some(2)
    /\ endDebounce = Some(2)
    /\ debounced[1].timerId = None

\* C19: a startExport() that joins a pending session leaves the debounced
\* function as it is: its timer is neither set, set again nor cleared and
\* the time of its last call stays; the debounced function of a session
\* changes only in an isInExport query and when its timer expires.
C19_JoinLeavesTimer ==
    [][/\ (exportPromise # None /\ StartExport) =>
              /\ endDebounce' = endDebounce
              /\ debounced'[endDebounce[1]].timerId = debounced[endDebounce[1]].timerId
              /\ debounced'[endDebounce[1]].lastCallTime = debounced[endDebounce[1]].lastCallTime
              /\ Len(debounced') = Len(debounced)
       /\ (\E i \in 1..Len(debounced) : debounced'[i] # debounced[i]) =>
              IsInExport \/ TimerExpired]_vars

\* C19 happens: startExport() joined a session that was queried earlier, and
\* the timer is still the one that query set, due Wait ms after the query.
C19_Witness ==
    /\ Pending
    /\ returned.startExport = Some(Len(promises))
    /\ lastQueryAt # None
    /\ lastQueryAt[1] < now
    /\ PendingDebounced.timerId = Some(lastQueryAt[1] + Wait)
    /\ PendingDebounced.lastCallTime = lastQueryAt

\* C20: a startExport() after a session's callback fired creates a new
\* pending promise, distinct from every earlier one, and a new debounced
\* function with no timer set, and leaves the earlier promises and debounced
\* functions as they are; in every state a timer that is set belongs to the
\* debounced function of the pending session, so no timer of an earlier
\* session is left to fire during a later one.
C20_SessionsSeparate ==
    /\ [](\A i \in 1..Len(debounced) :
            debounced[i].timerId # None =>
                /\ endDebounce = Some(i)
                /\ exportPromise = Some(i)
                /\ i = Len(promises)
                /\ promises[i].status = "pending")
    /\ [][(promises # <<>> /\ ~Pending /\ StartExport) =>
              /\ Len(promises') = Len(promises) + 1
              /\ Len(debounced') = Len(debounced) + 1
              /\ returned'.startExport = Some(Len(promises) + 1)
              /\ exportPromise' = Some(Len(promises) + 1)
              /\ endDebounce' = Some(Len(debounced) + 1)
              /\ promises'[Len(promises) + 1].status = "pending"
              /\ debounced'[Len(debounced) + 1] = [lastCallTime |-> None, timerId |-> None]
              /\ \A i \in 1..Len(promises) : promises'[i] = promises[i]
              /\ \A i \in 1..Len(debounced) : debounced'[i] = debounced[i]]_vars

\* C20 happens: the first session was resolved by its callback, a second
\* session was created and queried, and the only timer set is the second
\* session's.
C20_Witness ==
    /\ Len(promises) = 2
    /\ promises[1].status = "resolved"
    /\ Pending
    /\ debounced[1].timerId = None
    /\ debounced[2].timerId # None
    /\ debounced[2].lastCallTime = lastQueryAt

====
